---------------------------- MODULE Spec2Model ----------------------------
(***************************************************************************)
(* transaction-checker (src/main.go): an HTTP handler places verification  *)
(* requests on a buffered channel, two pools of goroutines (hederaWorker,  *)
(* mirrorWorker) range over the two channels, and sendAndLogToFile posts   *)
(* each outcome to the shadowing API and appends it to the log file.       *)
(*                                                                         *)
(* Strings that the code inspects character by character (transaction      *)
(* ids) are sequences of one-character strings.  Variables marked "history"*)
(* record what the code has done; the code does not read them.             *)
(***************************************************************************)
EXTENDS Integers, Sequences, FiniteSets, TLC

\* ------------------------------------------------------------------ bounds
MaxRequests == 2            \* HTTP requests that arrive in one run
defaultNumWorkers == 2      \* main: the default of both worker counts
defaultChannelCapacity == 1 \* main: the default of both queue capacities
MaxRecords == 1             \* records in one mirror node response
MaxLen == 4                 \* length of the strings given to the converter
MaxTime == 5                \* latest time (minutes) given to tooLate and its clock

\* ------------------------------------------------------- program constants
Threshold == 3              \* minutes, tooLate: 3*time.Minute
StatusMethodNotAllowed == 405
StatusBadRequest == 400
StatusAccepted == 202

\* txTimestamp values a request can carry: a time (minutes) older than the
\* threshold when the handler runs, one that is not, and a string that is
\* not an RFC3339 time.
Unparsable == -1
TxTimes == {0, Threshold + 1, Unparsable}

\* getEnvAsInt with the variables unset (main, lines 74-77).
NetworkWorkers == defaultNumWorkers
MirrorWorkers == defaultNumWorkers
NetworkQueueCapacity == defaultChannelCapacity
MirrorQueueCapacity == defaultChannelCapacity

Subs == 1..MaxRequests
\* transactionId values a body can carry: an identifier, and "" (the field
\* absent or empty).
ValidTxID == <<"2", "@", "1", ".", "5">>
TxIDs == { ValidTxID, <<>> }
Statuses == {"SUCCESS", "FAILED"}

\* TransactionPayload (the fields the program reads or that identify the
\* submission; sub is the history number of the HTTP request that carried it).
Payloads == [sub : Subs, TxID : TxIDs, TxTimestamp : TxTimes]
NoPayload == [sub |-> 0, TxID |-> <<>>, TxTimestamp |-> 0]
\* The field values json.Decode accepts (line 139): any strings, so also an
\* empty transactionId and a txTimestamp that is no time.
Decodable ==
    {f \in [TxID : TxIDs, TxTimestamp : TxTimes] :
        f.TxID = <<>> => f.TxTimestamp = Threshold + 1}
\* The bodies with an identifier and a time in both fields.
WellFormed == {f \in Decodable : f.TxID # <<>> /\ f.TxTimestamp # Unparsable}

\* TransactionStatus
NoStatus == [payload |-> NoPayload, Status |-> "", Error |-> ""]

VARIABLES
    nreq,           \* HTTP requests received so far
    pending,        \* payloads of handler goroutines standing at line 163
    response,       \* response[n]: status code written for request n, 0 = none yet
    networkQueue,   \* chan TransactionPayload
    mirrorQueue,    \* chan TransactionPayload
    hedera,         \* hedera[w]: position and locals of hederaWorker w
    mirror,         \* mirror[w]: position and locals of mirrorWorker w
    exited,         \* the process has called os.Exit (log.Fatalf)
    shadowingApi,   \* shadowingApi[n]: bodies for request n the shadowing API received
    logFile,        \* logFile[n]: lines of the log file that carry request n, in order
    submitted,      \* history: the payload decoded from request n
    hederaAnswer,   \* history: what the Hedera node answered for n
    mirrorAnswer,   \* history: what the mirror node answered for n
    hederaQueries,  \* history: receipt queries issued for n
    mirrorQueries,  \* history: mirror node lookups issued for n
    fallbacks,      \* history: sends of n from hederaWorker to mirrorQueue
    sinkCalls,      \* history: calls of sendAndLogToFile for n
    sinkErrors,     \* history: errors sendAndLogToFile logged for n (lines 280, 285)
    input,          \* converter harness: the string converted
    once,           \* converter harness: convert(input)
    twice,          \* converter harness: convert(convert(input))
    convPc,         \* converter harness: position
    logPc,          \* log file harness: position of each caller of logToFile
    fdMutex,        \* log file harness: holder of the write lock of logFile, 0 = free
    fileChunks,     \* log file harness: what the write calls have put in the file
    clock,          \* tooLate harness: the time time.Since reads
    timestamp,      \* tooLate harness: first argument (payload.Timestamp, parsed)
    txTimestamp,    \* tooLate harness: second argument (payload.TxTimestamp, parsed)
    late,           \* tooLate harness: position, then the result
    envNetworkWorkers, \* configuration harness: value of NETWORK_WORKERS, "" = unset
    envMirrorWorkers,  \* configuration harness: value of MIRROR_WORKERS, "" = unset
    networkWorkers, \* configuration harness: main's variable, 0 before line 74
    mirrorWorkers,  \* configuration harness: main's variable, 0 before line 75
    cfgPc,          \* configuration harness: position in main
    lookupPayload,  \* lookup harness: the payload a mirrorWorker received
    lookupReply,    \* lookup harness: what the mirror node answers
    lookupResult,   \* lookup harness: what checkTransactionOnMirrorNode returned
    lookupStatus    \* lookup harness: the TransactionStatus given to the sink

pipeVars == <<nreq, pending, response, networkQueue, mirrorQueue, hedera, mirror,
              exited, shadowingApi, logFile, submitted, hederaAnswer, mirrorAnswer,
              hederaQueries, mirrorQueries, fallbacks, sinkCalls, sinkErrors>>
convVars == <<input, once, twice, convPc>>
logVars == <<logPc, fdMutex, fileChunks>>
lateVars == <<clock, timestamp, txTimestamp, late>>
cfgVars == <<envNetworkWorkers, envMirrorWorkers, networkWorkers, mirrorWorkers, cfgPc>>
lookupVars == <<lookupPayload, lookupReply, lookupResult, lookupStatus>>
harnessVars == <<convVars, logVars, lateVars, cfgVars, lookupVars>>
vars == <<pipeVars, harnessVars>>


\* --------------------------------------------------------------- converter
Alphabet == {"@", ".", "-", "0"}
Strings == UNION {[1..k -> Alphabet] : k \in 0..MaxLen}

\* The least j >= i with s[j] = c, or 0 when there is none.
IndexFrom(s, c, i) ==
    LET hits == {j \in i..Len(s) : s[j] = c}
    IN  IF hits = {} THEN 0 ELSE CHOOSE j \in hits : \A k \in hits : j <= k

\* The replacement function given to ReplaceAllStringFunc: "-" + s[1:len(s)-1] + "-".
ReplaceMatchKeepsDelimiters(m) == <<"-">> \o m \o <<"-">>
ReplaceMatch(m) == <<"-">> \o SubSeq(m, 2, Len(m) - 1) \o <<"-">>

\* regexp `@([^.]*)\.` under ReplaceAllStringFunc, scanning s from position i:
\* the leftmost match starts at the first '@' that has a '.' after it and ends
\* at the first '.' after that '@'; the scan goes on behind the match.
RECURSIVE ReplaceAllFrom(_, _)
ReplaceAllFrom(s, i) ==
    LET a == IndexFrom(s, "@", i)
        d == IF a = 0 THEN 0 ELSE IndexFrom(s, ".", a + 1)
    IN  IF d = 0
        THEN SubSeq(s, i, Len(s))
        ELSE SubSeq(s, i, a - 1) \o ReplaceMatch(SubSeq(s, a, d))
                 \o ReplaceAllFrom(s, d + 1)

\* The same with only the first match replaced (regexp ReplaceAll -> first).
ReplaceFirstFrom(s, i) ==
    LET a == IndexFrom(s, "@", i)
        d == IF a = 0 THEN 0 ELSE IndexFrom(s, ".", a + 1)
    IN  IF d = 0
        THEN SubSeq(s, i, Len(s))
        ELSE SubSeq(s, i, a - 1) \o ReplaceMatch(SubSeq(s, a, d))
                 \o SubSeq(s, d + 1, Len(s))

convertFirstMatchOnly(s) == ReplaceFirstFrom(s, 1)
convertTransactionIdForMirrorNode(s) == ReplaceAllFrom(s, 1)

\* -------------------------------------------------------------- mirror node
\* What one GET of /api/v1/transactions/{id} can come to.
TransactionsWith(ids) == [Result : Statuses \cup {""}, TransactionID : ids]
MirrorIDs == {convertTransactionIdForMirrorNode(t) : t \in TxIDs} \cup {<<"9">>}
Transactions == TransactionsWith(MirrorIDs)
Bodies == UNION {[1..k -> Transactions] : k \in 0..MaxRecords}
\* The bodies the lookup is exercised with alone: one record more, and
\* records that carry an identifier in the form it was submitted in.
LookupBodies ==
    UNION {[1..k -> TransactionsWith(MirrorIDs \cup {ValidTxID})] :
              k \in 0..(MaxRecords + 1)}
MirrorReplies ==
    {[kind |-> k, transactions |-> <<>>] :
        k \in {"request_error", "non_200", "read_error", "bad_json"}}
    \cup {[kind |-> "ok", transactions |-> b] : b \in Bodies}
FailureKinds == {"request_error", "non_200", "read_error", "bad_json"}

\* A loop without the break of line 258: the last matching record wins.
LastResult(transactions, id) ==
    LET hits == {j \in 1..Len(transactions) : transactions[j].TransactionID = id}
    IN  IF hits = {} THEN ""
        ELSE transactions[CHOOSE j \in hits : \A k \in hits : j >= k].Result

\* The loop of lines 253-261: the Result of the first record whose
\* transaction_id equals id, "" when there is none.
FirstResult(transactions, id) ==
    LET hits == {j \in 1..Len(transactions) : transactions[j].TransactionID = id}
    IN  IF hits = {} THEN ""
        ELSE transactions[CHOOSE j \in hits : \A k \in hits : j <= k].Result

\* checkTransactionOnMirrorNode: (status, err), or fatal when io.ReadAll
\* fails and log.Fatalf ends the process.
checkTransactionOnMirrorNode(payload, reply) ==
    LET transactionId == convertTransactionIdForMirrorNode(payload.TxID)
    IN  CASE reply.kind = "request_error" ->
                [status |-> "", err |-> "request failed", fatal |-> FALSE]
          [] reply.kind = "non_200" ->
                [status |-> "", err |-> "received non-200 response", fatal |-> FALSE]
          [] reply.kind = "read_error" ->
                [status |-> "", err |-> "", fatal |-> TRUE]
          [] reply.kind = "bad_json" ->
                [status |-> "", err |-> "invalid JSON", fatal |-> FALSE]
          [] OTHER ->
                [status |-> FirstResult(reply.transactions, transactionId),
                 err |-> "", fatal |-> FALSE]

\* What the call of line 189 can return for a payload with identifier id,
\* over every reply of the mirror node: the kind of reply and the result.
MirrorAnswers ==
    [id \in TxIDs |->
        {[kind |-> reply.kind,
          r |-> checkTransactionOnMirrorNode([TxID |-> id], reply)] :
              reply \in MirrorReplies}]

\* fmt.Errorf("error getting status fgrom node, ... (mirror node): %v", err)
MirrorError(err) ==
    CASE err = "request failed" -> "mirror node: request failed"
      [] err = "received non-200 response" -> "mirror node: received non-200 response"
      [] OTHER -> "mirror node: invalid JSON"

\* ------------------------------------------------------------------ state
Idle == [pc |-> "recv", payload |-> NoPayload, ts |-> NoStatus]

\* After main has made the channels and started the workers (lines 89-127):
\* both channels empty, every worker at its range loop.
PipeInit ==
    /\ nreq = 0
    /\ pending = {}
    /\ response = [n \in Subs |-> 0]
    /\ networkQueue = <<>>
    /\ mirrorQueue = <<>>
    /\ hedera = [w \in 1..NetworkWorkers |-> Idle]
    /\ mirror = [w \in 1..MirrorWorkers |-> Idle]
    /\ exited = FALSE
    /\ shadowingApi = [n \in Subs |-> <<>>]
    /\ logFile = [n \in Subs |-> <<>>]
    /\ submitted = [n \in Subs |-> NoPayload]
    /\ hederaAnswer = [n \in Subs |-> "none"]
    /\ mirrorAnswer = [n \in Subs |-> "none"]
    /\ hederaQueries = [n \in Subs |-> 0]
    /\ mirrorQueries = [n \in Subs |-> 0]
    /\ fallbacks = [n \in Subs |-> 0]
    /\ sinkCalls = [n \in Subs |-> <<>>]
    /\ sinkErrors = [n \in Subs |-> {}]

ConvIdle ==
    /\ input = <<>>
    /\ once = <<>>
    /\ twice = <<>>
    /\ convPc = "off"

\* No caller at logToFile.
LogIdle ==
    /\ logPc = <<>>
    /\ fdMutex = 0
    /\ fileChunks = <<>>

\* tooLate not being called.
LateIdle ==
    /\ clock = 0
    /\ timestamp = 0
    /\ txTimestamp = 0
    /\ late = "off"

\* main's reading of the environment not being followed.
CfgIdle ==
    /\ envNetworkWorkers = <<>>
    /\ envMirrorWorkers = <<>>
    /\ networkWorkers = 0
    /\ mirrorWorkers = 0
    /\ cfgPc = "off"

\* No lookup being followed.
LookupIdle ==
    /\ lookupPayload = NoPayload
    /\ lookupReply = [kind |-> "none", transactions |-> <<>>]
    /\ lookupResult = [status |-> "", err |-> "", fatal |-> FALSE]
    /\ lookupStatus = NoStatus

HarnessIdle == ConvIdle /\ LogIdle /\ LateIdle /\ CfgIdle /\ LookupIdle

Init == PipeInit /\ HarnessIdle

\* The pools with requests on the network queue.  hederaWorker takes its
\* channel as a parameter; the handler of main never sends on networkQueue,
\* so the requests 1..k are put there as if the handler had routed them.
PoolInit ==
    /\ HarnessIdle
    /\ \E k \in 1..NetworkQueueCapacity :
         \E q \in [1..k -> Payloads] :
            /\ k <= MaxRequests
            /\ \A i \in 1..k :
                  /\ q[i].sub = i
                  /\ [TxID |-> q[i].TxID, TxTimestamp |-> q[i].TxTimestamp]
                        \in WellFormed
            /\ nreq = k
            /\ networkQueue = q
            /\ response = [n \in Subs |-> IF n <= k THEN StatusAccepted ELSE 0]
            /\ submitted = [n \in Subs |-> IF n <= k THEN q[n] ELSE NoPayload]
    /\ pending = {}
    /\ mirrorQueue = <<>>
    /\ hedera = [w \in 1..NetworkWorkers |-> Idle]
    /\ mirror = [w \in 1..MirrorWorkers |-> Idle]
    /\ exited = FALSE
    /\ shadowingApi = [n \in Subs |-> <<>>]
    /\ logFile = [n \in Subs |-> <<>>]
    /\ hederaAnswer = [n \in Subs |-> "none"]
    /\ mirrorAnswer = [n \in Subs |-> "none"]
    /\ hederaQueries = [n \in Subs |-> 0]
    /\ mirrorQueries = [n \in Subs |-> 0]
    /\ fallbacks = [n \in Subs |-> 0]
    /\ sinkCalls = [n \in Subs |-> <<>>]
    /\ sinkErrors = [n \in Subs |-> {}]

\* --------------------------------------------------------------- channels
\* A send on a buffered channel completes only while the buffer has room.
CanSendUnbounded(q, capacity) == TRUE
CanSend(q, capacity) == Len(q) < capacity
\* A receive takes the oldest element out of the buffer.
AfterRecvKeepsHead(q) == q
AfterRecv(q) == Tail(q)

histVars == <<submitted, hederaAnswer, mirrorAnswer, hederaQueries, mirrorQueries,
              fallbacks>>
sinkVars == <<shadowingApi, logFile, sinkCalls, sinkErrors>>
handlerVars == <<nreq, pending, response>>

\* ---------------------------------------------------- handleCheckTransaction
\* r.Method != http.MethodPost: 405, nothing else.
HandleBadMethod ==
    /\ ~exited
    /\ nreq < MaxRequests
    /\ nreq' = nreq + 1
    /\ response' = [response EXCEPT ![nreq + 1] = StatusMethodNotAllowed]
    /\ UNCHANGED <<pending, networkQueue, mirrorQueue, hedera, mirror, exited,
                   sinkVars, histVars, harnessVars>>

\* The body does not decode into a TransactionPayload: 400, nothing else.
HandleBadPayload ==
    /\ ~exited
    /\ nreq < MaxRequests
    /\ nreq' = nreq + 1
    /\ response' = [response EXCEPT ![nreq + 1] = StatusBadRequest]
    /\ UNCHANGED <<pending, networkQueue, mirrorQueue, hedera, mirror, exited,
                   sinkVars, histVars, harnessVars>>

\* A POST whose body decodes: the goroutine of this request now stands at
\* "mirrorQueue <- payload" (line 163).
HandleDecode(f) ==
    /\ ~exited
    /\ nreq < MaxRequests
    /\ LET payload == [sub |-> nreq + 1, TxID |-> f.TxID,
                        TxTimestamp |-> f.TxTimestamp]
       IN  /\ pending' = pending \cup {payload}
           /\ submitted' = [submitted EXCEPT ![nreq + 1] = payload]
    /\ nreq' = nreq + 1
    /\ UNCHANGED <<response, networkQueue, mirrorQueue, hedera, mirror, exited,
                   sinkVars, hederaAnswer, mirrorAnswer, hederaQueries,
                   mirrorQueries, fallbacks, harnessVars>>

\* The channel the handler sends on: lines 155-161 are commented out, so
\* whatever the timestamps it is the mirror queue (line 163).  RouteByAge is
\* a handler that sends the transactions not older than Threshold to the
\* network queue.
RouteByAge(payload) ==
    IF (Threshold + 1) - payload.TxTimestamp > Threshold THEN "mirror" ELSE "network"
Route(payload) == "mirror"

\* A handler that answers 202 "OK" without having sent the payload.
HandleEnqueueNoSend(payload) ==
    /\ ~exited
    /\ payload \in pending
    /\ pending' = pending \ {payload}
    /\ response' = [response EXCEPT ![payload.sub] = StatusAccepted]
    /\ UNCHANGED <<nreq, networkQueue, mirrorQueue, hedera, mirror, exited,
                   sinkVars, histVars, harnessVars>>

\* Lines 163-166: the send, then 202 "OK".
HandleEnqueue(payload) ==
    /\ ~exited
    /\ payload \in pending
    /\ IF Route(payload) = "mirror"
       THEN /\ CanSend(mirrorQueue, MirrorQueueCapacity)
            /\ mirrorQueue' = Append(mirrorQueue, payload)
            /\ UNCHANGED networkQueue
       ELSE /\ CanSend(networkQueue, NetworkQueueCapacity)
            /\ networkQueue' = Append(networkQueue, payload)
            /\ UNCHANGED mirrorQueue
    /\ pending' = pending \ {payload}
    /\ response' = [response EXCEPT ![payload.sub] = StatusAccepted]
    /\ UNCHANGED <<nreq, hedera, mirror, exited, sinkVars, histVars, harnessVars>>

\* ------------------------------------------------------------ sendAndLogToFile
\* An outcome that carries the identifier in the mirror node's form.
TransactionStatusConverted(payload, status, err) ==
    [payload |-> [payload EXCEPT !.TxID = convertTransactionIdForMirrorNode(@)],
     Status |-> status, Error |-> err]

\* Lines 265-271: the TransactionStatus built from the arguments.
TransactionStatus(payload, status, err) ==
    [payload |-> payload, Status |-> status, Error |-> err]

\* sendToShadowingApi (line 278): the POST arrives or http.Post fails; either
\* way the error is only logged and logToFile comes next.
Post(ts, arrives) ==
    IF arrives THEN [shadowingApi EXCEPT ![ts.payload.sub] = Append(@, ts)]
    ELSE shadowingApi
\* logToFile (line 283): one line appended, or WriteString fails.
Log(ts, written) ==
    IF written THEN [logFile EXCEPT ![ts.payload.sub] = Append(@, ts)]
    ELSE logFile

\* A sink that returns when the POST has failed, without calling logToFile.
sendAndLogToFileStopsOnError(ts, by) ==
    /\ sinkCalls' = [sinkCalls EXCEPT ![ts.payload.sub] =
                        Append(@, [ts |-> ts, by |-> by])]
    /\ \E arrives, written \in BOOLEAN :
         /\ shadowingApi' = Post(ts, arrives)
         /\ logFile' = Log(ts, arrives /\ written)
         /\ sinkErrors' = [sinkErrors EXCEPT ![ts.payload.sub] =
                @ \cup (IF arrives THEN {} ELSE {"Error sending the transaction"})
                  \cup (IF arrives /\ ~written
                        THEN {"Failed to log transaction"} ELSE {})]

\* One call of sendAndLogToFile, made by a worker of pool "by".  json.Marshal
\* of a struct of strings, an int and a *string returns no error, so the
\* return of line 275 is never taken: the POST and the append both happen,
\* each succeeding or failing on its own, a failure being logged.
sendAndLogToFile(ts, by) ==
    /\ sinkCalls' = [sinkCalls EXCEPT ![ts.payload.sub] =
                        Append(@, [ts |-> ts, by |-> by])]
    /\ \E arrives, written \in BOOLEAN :
         /\ shadowingApi' = Post(ts, arrives)
         /\ logFile' = Log(ts, written)
         /\ sinkErrors' = [sinkErrors EXCEPT ![ts.payload.sub] =
                @ \cup (IF arrives THEN {} ELSE {"Error sending the transaction"})
                  \cup (IF written THEN {} ELSE {"Failed to log transaction"})]

\* mirrorWorker, lines 190-196: what it gives sendAndLogToFile for the
\* (status, err) that checkTransactionOnMirrorNode returned.
MirrorStatus(payload, r) ==
    IF r.err # ""
    THEN TransactionStatus(payload, "", MirrorError(r.err))
    ELSE TransactionStatus(payload, r.status, "")

\* ------------------------------------------------------------- hederaWorker
\* "for payload := range payloads" takes the next payload (line 171).
HederaRecv(w) ==
    /\ ~exited
    /\ hedera[w].pc = "recv"
    /\ networkQueue # <<>>
    /\ hedera' = [hedera EXCEPT ![w] = [pc |-> "query", payload |-> Head(networkQueue),
                                        ts |-> NoStatus]]
    /\ networkQueue' = AfterRecv(networkQueue)
    /\ UNCHANGED <<handlerVars, mirrorQueue, mirror, exited, sinkVars, histVars,
                   harnessVars>>

\* getTransactionReceiptFromHederaNode returns a status (lines 177-179): the
\* worker stands at the call sendAndLogToFile(payload, status.String(), nil).
HederaQueryOk(w) ==
    /\ ~exited
    /\ hedera[w].pc = "query"
    /\ \E status \in Statuses :
         /\ hedera' = [hedera EXCEPT ![w].pc = "sink",
                         ![w].ts = TransactionStatus(hedera[w].payload, status, "")]
         /\ hederaAnswer' = [hederaAnswer EXCEPT ![hedera[w].payload.sub] = status]
    /\ hederaQueries' = [hederaQueries EXCEPT ![hedera[w].payload.sub] = @ + 1]
    /\ UNCHANGED <<handlerVars, networkQueue, mirrorQueue, mirror, exited, sinkVars,
                   submitted, mirrorAnswer, mirrorQueries, fallbacks, harnessVars>>

\* A worker that drops the payload when the receipt query fails.
HederaQueryErrDrops(w) ==
    /\ ~exited
    /\ hedera[w].pc = "query"
    /\ hedera' = [hedera EXCEPT ![w] = Idle]
    /\ hederaAnswer' = [hederaAnswer EXCEPT ![hedera[w].payload.sub] = "error"]
    /\ hederaQueries' = [hederaQueries EXCEPT ![hedera[w].payload.sub] = @ + 1]
    /\ UNCHANGED <<handlerVars, networkQueue, mirrorQueue, mirror, exited, sinkVars,
                   submitted, mirrorAnswer, mirrorQueries, fallbacks, harnessVars>>

\* getTransactionReceiptFromHederaNode returns an error (the id does not
\* parse, or the query fails or times out): the worker stands at
\* "mirrorQueue <- payload" (line 175).
HederaQueryErr(w) ==
    /\ ~exited
    /\ hedera[w].pc = "query"
    /\ hedera' = [hedera EXCEPT ![w].pc = "fallback"]
    /\ hederaAnswer' = [hederaAnswer EXCEPT ![hedera[w].payload.sub] = "error"]
    /\ hederaQueries' = [hederaQueries EXCEPT ![hedera[w].payload.sub] = @ + 1]
    /\ UNCHANGED <<handlerVars, networkQueue, mirrorQueue, mirror, exited, sinkVars,
                   submitted, mirrorAnswer, mirrorQueries, fallbacks, harnessVars>>

\* A worker that reports the failure to the sink as well as falling back.
HederaFallbackAlsoSinks(w) ==
    /\ ~exited
    /\ hedera[w].pc = "fallback"
    /\ CanSend(mirrorQueue, MirrorQueueCapacity)
    /\ mirrorQueue' = Append(mirrorQueue, hedera[w].payload)
    /\ fallbacks' = [fallbacks EXCEPT ![hedera[w].payload.sub] = @ + 1]
    /\ hedera' = [hedera EXCEPT ![w] = Idle]
    /\ sendAndLogToFile(TransactionStatus(hedera[w].payload, "", "hedera node: error"),
                        "hedera")
    /\ UNCHANGED <<handlerVars, networkQueue, mirror, exited, submitted,
                   hederaAnswer, mirrorAnswer, hederaQueries, mirrorQueries,
                   harnessVars>>

\* Line 175: the send on mirrorQueue, then back to the range loop.
HederaFallback(w) ==
    /\ ~exited
    /\ hedera[w].pc = "fallback"
    /\ CanSend(mirrorQueue, MirrorQueueCapacity)
    /\ mirrorQueue' = Append(mirrorQueue, hedera[w].payload)
    /\ fallbacks' = [fallbacks EXCEPT ![hedera[w].payload.sub] = @ + 1]
    /\ hedera' = [hedera EXCEPT ![w] = Idle]
    /\ UNCHANGED <<handlerVars, networkQueue, mirror, exited, sinkVars, submitted,
                   hederaAnswer, mirrorAnswer, hederaQueries, mirrorQueries,
                   harnessVars>>

\* Line 179: sendAndLogToFile runs and returns; back to the range loop.
HederaSink(w) ==
    /\ ~exited
    /\ hedera[w].pc = "sink"
    /\ sendAndLogToFile(hedera[w].ts, "hedera")
    /\ hedera' = [hedera EXCEPT ![w] = Idle]
    /\ UNCHANGED <<handlerVars, networkQueue, mirrorQueue, mirror, exited,
                   submitted, hederaAnswer, mirrorAnswer, hederaQueries,
                   mirrorQueries, fallbacks, harnessVars>>

\* ------------------------------------------------------------- mirrorWorker
\* "for payload := range payloads" takes the next payload (line 186).
MirrorRecv(w) ==
    /\ ~exited
    /\ mirror[w].pc = "recv"
    /\ mirrorQueue # <<>>
    /\ mirror' = [mirror EXCEPT ![w] = [pc |-> "query", payload |-> Head(mirrorQueue),
                                        ts |-> NoStatus]]
    /\ mirrorQueue' = AfterRecv(mirrorQueue)
    /\ UNCHANGED <<handlerVars, networkQueue, hedera, exited, sinkVars, histVars,
                   harnessVars>>

\* Lines 188-195: after the 2 s sleep the lookup is made and answered.  A
\* failed read of the body ends the process (log.Fatalf, line 246); after
\* every other answer the worker stands at its call of sendAndLogToFile,
\* with ("", the wrapped error) or with (status, nil).
MirrorQuery(w) ==
    /\ ~exited
    /\ mirror[w].pc = "query"
    /\ \E a \in MirrorAnswers[mirror[w].payload.TxID] :
         LET payload == mirror[w].payload
             r == a.r
             ts == MirrorStatus(payload, r)
         IN  /\ mirrorAnswer' = [mirrorAnswer EXCEPT ![payload.sub] = a.kind]
             /\ mirrorQueries' = [mirrorQueries EXCEPT ![payload.sub] = @ + 1]
             /\ IF r.fatal
                THEN /\ exited' = TRUE
                     /\ UNCHANGED mirror
                ELSE /\ mirror' = [mirror EXCEPT ![w].pc = "sink", ![w].ts = ts]
                     /\ UNCHANGED exited
    /\ UNCHANGED <<handlerVars, networkQueue, mirrorQueue, hedera, sinkVars,
                   submitted, hederaAnswer, hederaQueries, fallbacks, harnessVars>>

\* Lines 192 and 195: sendAndLogToFile runs and returns; back to the range loop.
MirrorSink(w) ==
    /\ ~exited
    /\ mirror[w].pc = "sink"
    /\ sendAndLogToFile(mirror[w].ts, "mirror")
    /\ mirror' = [mirror EXCEPT ![w] = Idle]
    /\ UNCHANGED <<handlerVars, networkQueue, mirrorQueue, hedera, exited,
                   submitted, hederaAnswer, mirrorAnswer, hederaQueries,
                   mirrorQueries, fallbacks, harnessVars>>

\* -------------------------------------------------------- converter harness
ConvInit ==
    /\ PipeInit /\ LogIdle /\ LateIdle /\ CfgIdle /\ LookupIdle
    /\ input \in Strings
    /\ once = <<>>
    /\ twice = <<>>
    /\ convPc = "start"

ConvertOnce ==
    /\ convPc = "start"
    /\ once' = convertTransactionIdForMirrorNode(input)
    /\ convPc' = "once"
    /\ UNCHANGED <<input, twice, pipeVars, logVars, lateVars, cfgVars, lookupVars>>

ConvertTwice ==
    /\ convPc = "once"
    /\ twice' = convertTransactionIdForMirrorNode(once)
    /\ convPc' = "twice"
    /\ UNCHANGED <<input, once, pipeVars, logVars, lateVars, cfgVars, lookupVars>>

\* ------------------------------------------------------------------- lookup
\* One mirrorWorker with a payload in hand (line 189), the mirror node
\* answering with a failure or with a body of up to MaxRecords + 1 records.
LookupInit ==
    /\ PipeInit /\ ConvIdle /\ LogIdle /\ LateIdle /\ CfgIdle
    /\ \E id \in TxIDs :
          lookupPayload = [sub |-> 1, TxID |-> id, TxTimestamp |-> 0]
    /\ lookupReply \in
          {[kind |-> k, transactions |-> <<>>] : k \in FailureKinds}
             \cup {[kind |-> "ok", transactions |-> b] : b \in LookupBodies}
    /\ lookupResult = [status |-> "", err |-> "", fatal |-> FALSE]
    /\ lookupStatus = NoStatus

\* Lines 189-196: the lookup and the outcome the worker makes of it.
Lookup ==
    /\ lookupStatus = NoStatus /\ ~lookupResult.fatal
    /\ lookupPayload # NoPayload
    /\ lookupResult' = checkTransactionOnMirrorNode(lookupPayload, lookupReply)
    /\ lookupStatus' = IF lookupResult'.fatal
                       THEN NoStatus   \* log.Fatalf, line 246: no outcome
                       ELSE MirrorStatus(lookupPayload, lookupResult')
    /\ UNCHANGED <<lookupPayload, lookupReply, pipeVars, convVars, logVars,
                   lateVars, cfgVars>>

LookupNext == Lookup
LookupSpec == LookupInit /\ [][LookupNext]_vars

\* ------------------------------------------------------------------ tooLate
\* tooLate (lines 360-364), times in minutes, now being what time.Since
\* reads from the clock.  The Durations stay far from the 64 bit range (at
\* which Sub saturates), so they are plain integers.
tooLate(now, ts, txTs) ==
    LET timeDifference == now - ts
        adjustedTxTimestamp == txTs + timeDifference
    IN  adjustedTxTimestamp - txTs > Threshold

LateInit ==
    /\ PipeInit /\ ConvIdle /\ LogIdle /\ CfgIdle /\ LookupIdle
    /\ clock \in 0..MaxTime
    /\ timestamp \in 0..MaxTime
    /\ txTimestamp \in 0..MaxTime
    /\ late = "call"

CallTooLate ==
    /\ late = "call"
    /\ late' = IF tooLate(clock, timestamp, txTimestamp) THEN "true" ELSE "false"
    /\ UNCHANGED <<clock, timestamp, txTimestamp, pipeVars, convVars, logVars, cfgVars, lookupVars>>

LateNext == CallTooLate
LateSpec == LateInit /\ [][LateNext]_vars

\* ------------------------------------------------------------ configuration
\* main's defaultNumWorkers as the source has it (line 70); the pools of
\* this model run at the size of the bound defaultNumWorkers.
SourceDefaultNumWorkers == 128

\* Values of an environment variable: unset or empty, not an integer, an
\* integer.
EnvStrings == {<<>>, <<"x">>, <<"1", "x">>, <<"7">>, <<"6", "4">>, <<"1", "2", "8">>}
DecimalDigits == <<"0", "1", "2", "3", "4", "5", "6", "7", "8", "9">>
IsDecimal(str) ==
    /\ str # <<>>
    /\ \A i \in 1..Len(str) : \E d \in 1..10 : DecimalDigits[d] = str[i]
RECURSIVE DecimalValue(_)
DecimalValue(str) ==
    IF str = <<>> THEN 0
    ELSE 10 * DecimalValue(SubSeq(str, 1, Len(str) - 1))
            + (CHOOSE d \in 1..10 : DecimalDigits[d] = str[Len(str)]) - 1

\* getEnvAsInt (lines 343-350): strconv.Atoi of the value, "" when the
\* variable is unset; the default when Atoi fails.
getEnvAsInt(value, defaultValue) ==
    IF IsDecimal(value) THEN DecimalValue(value) ELSE defaultValue

ConfigInit ==
    /\ PipeInit /\ ConvIdle /\ LogIdle /\ LateIdle /\ LookupIdle
    /\ envNetworkWorkers \in EnvStrings
    /\ envMirrorWorkers \in EnvStrings
    /\ networkWorkers = 0
    /\ mirrorWorkers = 0
    /\ cfgPc = "line 74"

\* networkWorkers = getEnvAsInt("NETWORK_WORKERS", defaultNumWorkers)
ReadNetworkWorkers ==
    /\ cfgPc = "line 74"
    /\ networkWorkers' = getEnvAsInt(envNetworkWorkers, SourceDefaultNumWorkers)
    /\ cfgPc' = "line 75"
    /\ UNCHANGED <<envNetworkWorkers, envMirrorWorkers, mirrorWorkers,
                   pipeVars, convVars, logVars, lateVars, lookupVars>>

\* mirrorWorkers = getEnvAsInt("MIRROR_WORKERS", defaultNumWorkers)
ReadMirrorWorkers ==
    /\ cfgPc = "line 75"
    /\ mirrorWorkers' = getEnvAsInt(envMirrorWorkers, SourceDefaultNumWorkers)
    /\ cfgPc' = "line 76"
    /\ UNCHANGED <<envNetworkWorkers, envMirrorWorkers, networkWorkers,
                   pipeVars, convVars, logVars, lateVars, lookupVars>>

ConfigNext == ReadNetworkWorkers \/ ReadMirrorWorkers
ConfigSpec == ConfigInit /\ [][ConfigNext]_vars

\* ---------------------------------------------------------------- logToFile
\* The workers of both pools, each standing in sendAndLogToFile at its call
\* of logToFile (line 283) with the entry of its outcome; callers up to
\* NetworkWorkers are hederaWorkers, the others mirrorWorkers.
Callers == 1..(NetworkWorkers + MirrorWorkers)

LogInit ==
    /\ PipeInit /\ ConvIdle /\ LateIdle /\ CfgIdle /\ LookupIdle
    /\ logPc = [c \in Callers |-> "call"]
    /\ fdMutex = 0
    /\ fileChunks = <<>>

\* A WriteString that starts writing whoever else is writing.
WriteLockNoMutex(c) ==
    /\ logPc[c] = "call"
    /\ fdMutex' = c
    /\ logPc' = [logPc EXCEPT ![c] = "locked"]
    /\ UNCHANGED <<fileChunks, pipeVars, convVars, lateVars, cfgVars, lookupVars>>

\* logFile.WriteString (line 311) on the one *os.File that main opened with
\* O_APPEND (line 93): File.Write takes the write lock of the descriptor
\* and keeps it until the whole string is written or a write fails.
WriteLock(c) ==
    /\ logPc[c] = "call"
    /\ fdMutex = 0
    /\ fdMutex' = c
    /\ logPc' = [logPc EXCEPT ![c] = "locked"]
    /\ UNCHANGED <<fileChunks, pipeVars, convVars, lateVars, cfgVars, lookupVars>>

\* One write call takes the whole entry, "time - JSON" and the newline.
WriteAll(c) ==
    /\ logPc[c] = "locked"
    /\ fileChunks' = fileChunks \o <<[by |-> c, part |-> "entry"],
                                     [by |-> c, part |-> "newline"]>>
    /\ logPc' = [logPc EXCEPT ![c] = "written"]
    /\ UNCHANGED <<fdMutex, pipeVars, convVars, lateVars, cfgVars, lookupVars>>

\* The write call takes only a first part of the string; File.Write loops.
WriteShort(c) ==
    /\ logPc[c] = "locked"
    /\ fileChunks' = Append(fileChunks, [by |-> c, part |-> "entry"])
    /\ logPc' = [logPc EXCEPT ![c] = "half"]
    /\ UNCHANGED <<fdMutex, pipeVars, convVars, lateVars, cfgVars, lookupVars>>

WriteRest(c) ==
    /\ logPc[c] = "half"
    /\ fileChunks' = Append(fileChunks, [by |-> c, part |-> "newline"])
    /\ logPc' = [logPc EXCEPT ![c] = "written"]
    /\ UNCHANGED <<fdMutex, pipeVars, convVars, lateVars, cfgVars, lookupVars>>

\* The write call fails: nothing of this entry is in the file.
WriteFails(c) ==
    /\ logPc[c] = "locked"
    /\ logPc' = [logPc EXCEPT ![c] = "failed"]
    /\ UNCHANGED <<fdMutex, fileChunks, pipeVars, convVars, lateVars, cfgVars, lookupVars>>

\* File.Write releases the lock and logToFile returns nil (line 315) or the
\* error (line 313).
WriteUnlock(c) ==
    /\ logPc[c] \in {"written", "failed"}
    /\ fdMutex' = 0
    /\ logPc' = [logPc EXCEPT ![c] = IF @ = "written" THEN "nil" ELSE "error"]
    /\ UNCHANGED <<fileChunks, pipeVars, convVars, lateVars, cfgVars, lookupVars>>

LogNext ==
    \E c \in Callers :
        \/ WriteLock(c)
        \/ WriteAll(c)
        \/ WriteShort(c)
        \/ WriteRest(c)
        \/ WriteFails(c)
        \/ WriteUnlock(c)
LogSpec == LogInit /\ [][LogNext]_vars

\* ---------------------------------------------------------- specifications
\* The handler serving requests whose decodable bodies carry the given fields.
HandlerNext(fields) ==
    \/ HandleBadMethod
    \/ HandleBadPayload
    \/ \E f \in fields : HandleDecode(f)
    \/ \E payload \in Payloads : HandleEnqueue(payload)

HederaNext ==
    \E w \in 1..NetworkWorkers :
        \/ HederaRecv(w)
        \/ HederaQueryOk(w)
        \/ HederaQueryErr(w)
        \/ HederaFallback(w)
        \/ HederaSink(w)

MirrorNext ==
    \E w \in 1..MirrorWorkers :
        \/ MirrorRecv(w)
        \/ MirrorQuery(w)
        \/ MirrorSink(w)

\* The program as main starts it, served requests with well-formed fields.
\* No hederaWorker step is ever enabled (HederaNeverEnabled), so the steps
\* of the program are these.
Next == HandlerNext(WellFormed) \/ MirrorNext
Spec == Init /\ [][Next]_vars
HederaNeverEnabled == ~ENABLED HederaNext

\* The process is told to stop, or the server fails: http.ListenAndServe
\* returns and log.Fatal exits (line 127), or the signal ends the process;
\* main closes no channel, the deferred Close calls do not run and wg.Wait
\* (line 129) is not reached.
Shutdown ==
    /\ ~exited
    /\ exited' = TRUE
    /\ UNCHANGED <<handlerVars, networkQueue, mirrorQueue, hedera, mirror,
                   sinkVars, histVars, harnessVars>>
ShutdownNext == Next \/ Shutdown
ShutdownSpec == Init /\ [][ShutdownNext]_vars

\* The same program served every decodable body, also those with an empty
\* transactionId or a txTimestamp that is no time.
IngestNext == HandlerNext(Decodable) \/ MirrorNext
IngestSpec == Init /\ [][IngestNext]_vars

\* The two pools at work, the network queue holding requests.
PoolNext == HandlerNext(WellFormed) \/ HederaNext \/ MirrorNext
PoolSpec == PoolInit /\ [][PoolNext]_vars

\* The converter on every string of the alphabet up to MaxLen.
ConvNext == ConvertOnce \/ ConvertTwice
ConvSpec == ConvInit /\ [][ConvNext]_vars

\* Go runs every goroutine that can take a step, and a channel serves its
\* blocked senders and receivers in turn.
Fairness ==
    /\ \A n \in Subs :
         SF_vars(\E payload \in Payloads : payload.sub = n /\ HandleEnqueue(payload))
    /\ \A w \in 1..MirrorWorkers :
         /\ SF_vars(MirrorRecv(w))
         /\ WF_vars(MirrorQuery(w))
         /\ WF_vars(MirrorSink(w))
FairSpec == Spec /\ Fairness

HederaFairness ==
    \A w \in 1..NetworkWorkers :
        /\ SF_vars(HederaRecv(w))
        /\ WF_vars(HederaQueryOk(w) \/ HederaQueryErr(w))
        /\ SF_vars(HederaFallback(w))
        /\ WF_vars(HederaSink(w))
FairPoolSpec == PoolSpec /\ Fairness /\ HederaFairness

\* ========================================================= pipeline claims
\* The age of a submission when the handler decodes it: the handler's clock
\* reads Now, the submission was made at its txTimestamp.
Now == Threshold + 1
Age(p) == Now - p.TxTimestamp

Accepted(s) == submitted[s] # NoPayload
InQueue(q, s) == {i \in 1..Len(q) : q[i].sub = s}
HederaHolders(s) ==
    {w \in 1..NetworkWorkers : hedera[w].pc # "recv" /\ hedera[w].payload.sub = s}
MirrorHolders(s) ==
    {w \in 1..MirrorWorkers : mirror[w].pc # "recv" /\ mirror[w].payload.sub = s}
\* The places request s is in: handler goroutines sending it, slots of the
\* two queues, workers holding it.
Places(s) ==
    Cardinality({p \in pending : p.sub = s})
        + Cardinality(InQueue(networkQueue, s)) + Cardinality(InQueue(mirrorQueue, s))
        + Cardinality(HederaHolders(s)) + Cardinality(MirrorHolders(s))

\* C1: under fair scheduling every request the handler accepts is in the
\* end handed to sendAndLogToFile, whatever the backends answer.
C1_AcceptedReachesSink ==
    \A s \in Subs : Accepted(s) ~> (Len(sinkCalls[s]) >= 1)

\* What is left of C1 when the runs that end in log.Fatalf are set aside
\* (checked beside C1, not a claim).
AcceptedReachesSinkUnlessFatal ==
    \A s \in Subs : Accepted(s) ~> (Len(sinkCalls[s]) >= 1 \/ exited)

\* C3: an accepted request of age at most Threshold is first put on the
\* network queue, an older one directly on the mirror queue.
C3_RoutedByAge ==
    [][\A p \in Payloads :
          (p \in pending /\ p \notin pending') =>
              IF Age(p) <= Threshold
              THEN networkQueue' = Append(networkQueue, p)
              ELSE mirrorQueue' = Append(mirrorQueue, p)]_vars

\* The outcomes made for s: handed to the sink, or in the hands of the
\* mirror worker that stands at its call of the sink.
MirrorOutcomes(s) ==
    {sinkCalls[s][i].ts : i \in 1..Len(sinkCalls[s])}
        \cup {mirror[w].ts : w \in {v \in MirrorHolders(s) : mirror[v].pc = "sink"}}

\* C5: after every kind of mirror failure the worker goes on (the process
\* runs), the request is on no queue again, and exactly one outcome with
\* empty status and non-empty error is made for it.
C5_MirrorFailureIsData ==
    \A s \in Subs :
        mirrorAnswer[s] \in FailureKinds =>
            /\ ~exited
            /\ InQueue(mirrorQueue, s) = {} /\ InQueue(networkQueue, s) = {}
            /\ mirrorQueries[s] = 1
            /\ Len(sinkCalls[s]) <= 1
            /\ \E ts \in MirrorOutcomes(s) :
                  /\ MirrorOutcomes(s) = {ts}
                  /\ ts.Status = "" /\ ts.Error # "" /\ ts.payload = submitted[s]

\* C5 for the failures other than a failed read of the body (checked beside
\* C5, not a claim).
MirrorFailureIsDataUnlessReadError ==
    \A s \in Subs :
        mirrorAnswer[s] \in FailureKinds \ {"read_error"} =>
            /\ InQueue(mirrorQueue, s) = {} /\ InQueue(networkQueue, s) = {}
            /\ mirrorQueries[s] = 1
            /\ Len(sinkCalls[s]) <= 1
            /\ \E ts \in MirrorOutcomes(s) :
                  /\ MirrorOutcomes(s) = {ts}
                  /\ ts.Status = "" /\ ts.Error # "" /\ ts.payload = submitted[s]

\* What is left of C4's "one secondary attempt" as a progress property when
\* the runs that end in log.Fatalf are set aside (checked beside C4 under
\* FairPoolSpec, not a claim).
FallbackAttemptedUnlessFatal ==
    \A s \in Subs : (hederaAnswer[s] = "error") ~> (mirrorQueries[s] = 1 \/ exited)

\* C2: no submission is handed to the sink more than once, by whichever
\* pool and along whichever path.
C2_AtMostOneSinkCall ==
    \A s \in Subs : Len(sinkCalls[s]) <= 1

\* A request that failed on the Hedera node, fell back and was handed to the
\* sink by a mirror worker, beside another that reached the sink as well.
C2_Witness ==
    \E s, t \in Subs :
        /\ s # t
        /\ hederaAnswer[s] = "error" /\ fallbacks[s] = 1
        /\ Len(sinkCalls[s]) = 1 /\ sinkCalls[s][1].by = "mirror"
        /\ Len(sinkCalls[t]) = 1

\* For a request s whose receipt query failed: no hederaWorker hands an
\* outcome to the sink; the payload as submitted is in exactly one place
\* (the worker about to send it, the mirror queue, one mirror worker) until
\* it is handed to the sink; it is sent to the mirror queue once, looked up
\* on the mirror node at most once, and exactly once by the time its outcome
\* is handed to the sink.
FallbackState(s) ==
    /\ \A i \in 1..Len(sinkCalls[s]) : sinkCalls[s][i].by = "mirror"
    /\ InQueue(networkQueue, s) = {}
    /\ Places(s) + Len(sinkCalls[s]) = 1
    /\ fallbacks[s] = IF HederaHolders(s) = {} THEN 1 ELSE 0
    /\ \A w \in HederaHolders(s) :
          hedera[w].pc = "fallback" /\ hedera[w].payload = submitted[s]
    /\ \A i \in InQueue(mirrorQueue, s) : mirrorQueue[i] = submitted[s]
    /\ \A w \in MirrorHolders(s) : mirror[w].payload = submitted[s]
    /\ mirrorQueries[s] <= 1
    /\ (Places(s) = 0 \/ \E w \in MirrorHolders(s) : mirror[w].pc = "sink")
          => mirrorQueries[s] = 1
    /\ (HederaHolders(s) # {} \/ InQueue(mirrorQueue, s) # {}) => mirrorQueries[s] = 0

\* The step in which hederaWorker w leaves line 175 puts the payload it got,
\* unchanged, at the tail of the mirror queue and calls no sink.
FallbackStep(w) ==
    (hedera[w].pc = "fallback" /\ hedera'[w].pc # "fallback") =>
        /\ mirrorQueue' = Append(mirrorQueue, submitted[hedera[w].payload.sub])
        /\ UNCHANGED sinkVars

C6_FreshRequestPrimaryOnly ==
    \A s \in Subs :
        (Accepted(s) /\ Age(submitted[s]) = 0 /\ hederaAnswer[s] # "error") =>
            /\ mirrorQueries[s] = 0
            /\ InQueue(mirrorQueue, s) = {} /\ MirrorHolders(s) = {}
            /\ Len(sinkCalls[s]) <= 1
            /\ \A i \in 1..Len(sinkCalls[s]) :
                  /\ sinkCalls[s][i].by = "hedera"
                  /\ sinkCalls[s][i].ts.Status = hederaAnswer[s]
                  /\ sinkCalls[s][i].ts.Error = ""

\* The primary success path at the worker (checked beside C6 where the
\* network queue is fed, not a claim): a request the Hedera node answered
\* with status S is never looked up on the mirror node nor put on the mirror
\* queue; one outcome (S, no error) is made for it, the worker holding it
\* until sendAndLogToFile has run; then that outcome has been handed to the
\* sink once, and is at the shadowing API once and in the log file once,
\* each unless the sink logged the failure of that delivery.
PrimarySuccessAtWorker ==
    \A s \in Subs :
        hederaAnswer[s] \in Statuses =>
            LET out == [payload |-> submitted[s], Status |-> hederaAnswer[s],
                        Error |-> ""]
            IN  /\ mirrorQueries[s] = 0 /\ fallbacks[s] = 0
                /\ InQueue(mirrorQueue, s) = {} /\ MirrorHolders(s) = {}
                /\ hederaQueries[s] = 1
                /\ IF HederaHolders(s) # {}
                   THEN /\ Cardinality(HederaHolders(s)) = 1
                        /\ \A w \in HederaHolders(s) :
                              hedera[w].pc = "sink" /\ hedera[w].ts = out
                        /\ sinkCalls[s] = <<>>
                        /\ shadowingApi[s] = <<>> /\ logFile[s] = <<>>
                   ELSE /\ sinkCalls[s] = <<[ts |-> out, by |-> "hedera"]>>
                        /\ shadowingApi[s] =
                              IF "Error sending the transaction" \in sinkErrors[s]
                              THEN <<>> ELSE <<out>>
                        /\ logFile[s] =
                              IF "Failed to log transaction" \in sinkErrors[s]
                              THEN <<>> ELSE <<out>>

\* A queue after a step: as it was, with its head taken by a worker, or
\* with one payload more at its tail.
QueueStep(q, qq, workers, ww) ==
    \/ qq = q
    \/ /\ q # <<>>
       /\ qq = Tail(q)
       /\ \E w \in DOMAIN workers :
             /\ workers[w].pc = "recv"
             /\ ww[w].pc = "query" /\ ww[w].payload = Head(q)
    \/ \E p \in Payloads : qq = Append(q, p)

\* While the mirror queue is full no send on it completes: it gets no
\* longer, every handler standing at its send still stands there and has
\* written no response, and every hederaWorker standing at line 175 still
\* stands there.
BlockedWhileFull ==
    Len(mirrorQueue) >= MirrorQueueCapacity =>
        /\ Len(mirrorQueue') <= Len(mirrorQueue)
        /\ \A p \in pending : p \in pending' /\ response'[p.sub] = 0
        /\ \A w \in 1..NetworkWorkers :
              hedera[w].pc = "fallback" => hedera'[w] = hedera[w]

\* C7: each queue holds at most its capacity; a send on a full queue does not
\* complete, and the handler writes no response, before a worker has taken a
\* payload off; a payload leaves a queue only into the hands of a worker.
C7_Backpressure ==
    /\ [](/\ Len(networkQueue) <= NetworkQueueCapacity
          /\ Len(mirrorQueue) <= MirrorQueueCapacity
          /\ \A p \in pending : response[p.sub] = 0)
    /\ [][/\ BlockedWhileFull
          /\ QueueStep(mirrorQueue, mirrorQueue', mirror, mirror')
          /\ QueueStep(networkQueue, networkQueue', hedera, hedera')]_vars

\* The mirror queue is full of a payload that fell back from a hederaWorker,
\* and a handler stands at its send with no response written.
C7_Witness ==
    /\ Len(mirrorQueue) = MirrorQueueCapacity
    /\ \E i \in 1..Len(mirrorQueue) : fallbacks[mirrorQueue[i].sub] = 1
    /\ \E p \in pending : response[p.sub] = 0

\* C8: a request is never in two places at once (two workers, a worker and a
\* queue, two slots of a queue), and once handed to the sink it is nowhere;
\* no payload is taken off a queue by two workers.
C8_SoleOwner ==
    \A s \in Subs :
        /\ Places(s) <= 1
        /\ Len(sinkCalls[s]) >= 1 => Places(s) = 0
        /\ hederaQueries[s]
              + Cardinality({w \in HederaHolders(s) : hedera[w].pc = "query"}) <= 1
        /\ mirrorQueries[s]
              + Cardinality({w \in MirrorHolders(s) :
                                mirror[w].pc = "query" /\ ~exited}) <= 1

\* Two workers of the mirror pool each hold a request, and a hederaWorker
\* has taken one off the network queue.
C8_Witness ==
    /\ \E v, w \in 1..MirrorWorkers :
          /\ v # w
          /\ mirror[v].pc # "recv" /\ mirror[w].pc # "recv"
          /\ mirror[v].payload.sub # mirror[w].payload.sub
    /\ \E s \in Subs : hederaQueries[s] = 1

\* ------------------------------------------------------------ ingestion
Malformed(p) == p.TxID = <<>> \/ p.TxTimestamp = Unparsable

\* C11: a request whose transactionId is empty or whose timestamp does not
\* parse is rejected by the handler (never answered 202) and is never on a
\* queue nor with a worker.
C11_MalformedRejected ==
    \A s \in Subs :
        (Accepted(s) /\ Malformed(submitted[s])) =>
            /\ response[s] # StatusAccepted
            /\ InQueue(networkQueue, s) = {} /\ InQueue(mirrorQueue, s) = {}
            /\ HederaHolders(s) = {} /\ MirrorHolders(s) = {}
            /\ sinkCalls[s] = <<>>

\* The step in which request n is answered: 405 and 400 leave both queues
\* and the handlers standing at their send as they were; 202 comes with
\* exactly one copy of the request put at the tail of one queue.
AnswerStep(n) ==
    (response[n] = 0 /\ response'[n] # 0) =>
        IF response'[n] \in {StatusMethodNotAllowed, StatusBadRequest}
        THEN UNCHANGED <<networkQueue, mirrorQueue, pending>>
        ELSE /\ response'[n] = StatusAccepted
             /\ \/ /\ mirrorQueue' = Append(mirrorQueue, submitted[n])
                   /\ UNCHANGED networkQueue
                \/ /\ networkQueue' = Append(networkQueue, submitted[n])
                   /\ UNCHANGED mirrorQueue

\* C12: a non-POST request gets 405 and an undecodable body 400, both with
\* the queues unchanged and the request nowhere in the pipeline; every
\* other request gets no answer but 202, written only once one copy of it
\* has been put on a queue.
C12_EndpointOutcomes ==
    /\ [](\A n \in Subs :
            /\ (n <= nreq /\ ~Accepted(n)) =>
                  /\ response[n] \in {StatusMethodNotAllowed, StatusBadRequest}
                  /\ Places(n) = 0 /\ sinkCalls[n] = <<>>
            /\ Accepted(n) =>
                  /\ response[n] \in {0, StatusAccepted}
                  /\ response[n] = 0 <=> submitted[n] \in pending
                  /\ response[n] = StatusAccepted => Places(n) + Len(sinkCalls[n]) = 1
            /\ n > nreq => response[n] = 0)
    /\ [][\A n \in Subs : AnswerStep(n)]_vars

\* One request was refused, and one with an empty transactionId or an
\* unparsable timestamp was answered 202.
C12_Witness ==
    \E n, k \in Subs :
        /\ response[n] \in {StatusMethodNotAllowed, StatusBadRequest}
        /\ response[k] = StatusAccepted /\ Malformed(submitted[k])

\* ------------------------------------------------------------------ sink
\* C13: for every outcome handed to the sink the POST to the shadowing API
\* and the append to the log file have both been attempted, each ending
\* either in the outcome delivered or in its failure logged, whatever became
\* of the other; and the sink has returned: the worker no longer holds the
\* request.
C13_SinkIndependence ==
    \A s \in Subs :
        IF sinkCalls[s] = <<>>
        THEN shadowingApi[s] = <<>> /\ logFile[s] = <<>> /\ sinkErrors[s] = {}
        ELSE \A i \in 1..Len(sinkCalls[s]) :
                LET ts == sinkCalls[s][i].ts
                IN  /\ shadowingApi[s] =
                          IF "Error sending the transaction" \in sinkErrors[s]
                          THEN <<>> ELSE <<ts>>
                    /\ logFile[s] =
                          IF "Failed to log transaction" \in sinkErrors[s]
                          THEN <<>> ELSE <<ts>>
                    /\ HederaHolders(s) = {} /\ MirrorHolders(s) = {}

\* A hederaWorker's outcome whose POST failed and whose line was written,
\* and a mirrorWorker's outcome that was delivered and whose append failed.
C13_Witness ==
    \E s, t \in Subs :
        /\ Len(sinkCalls[s]) = 1 /\ sinkCalls[s][1].by = "hedera"
        /\ sinkErrors[s] = {"Error sending the transaction"}
        /\ logFile[s] = <<sinkCalls[s][1].ts>>
        /\ Len(sinkCalls[t]) = 1 /\ sinkCalls[t][1].by = "mirror"
        /\ sinkErrors[t] = {"Failed to log transaction"}
        /\ shadowingApi[t] = <<sinkCalls[t][1].ts>>

\* -------------------------------------------------------------- log file
Appending == {c \in DOMAIN logPc : logPc[c] \in {"locked", "half", "written", "failed"}}

C16_EverythingToMirror ==
    /\ [](/\ networkQueue = <<>>
          /\ HederaNeverEnabled
          /\ \A w \in DOMAIN hedera : hedera[w] = Idle
          /\ \A s \in Subs : hederaQueries[s] = 0 /\ hederaAnswer[s] = "none")
    /\ [][\A n \in Subs :
            (response[n] = 0 /\ response'[n] = StatusAccepted) =>
                mirrorQueue' = Append(mirrorQueue, submitted[n])]_vars

\* A request submitted now and one older than the threshold have both been
\* looked up on the mirror node and handed to the sink by mirror workers.
C16_Witness ==
    \E s, t \in Subs :
        /\ Accepted(s) /\ Age(submitted[s]) = 0
        /\ Accepted(t) /\ Age(submitted[t]) > Threshold
        /\ mirrorQueries[s] = 1 /\ mirrorQueries[t] = 1
        /\ Len(sinkCalls[s]) = 1 /\ sinkCalls[s][1].by = "mirror"
        /\ Len(sinkCalls[t]) = 1 /\ sinkCalls[t][1].by = "mirror"

\* --------------------------------------------------------- configuration
\* The defaults the README gives for NETWORK_WORKERS and MIRROR_WORKERS.
ReadmeNetworkWorkers == 128
ReadmeMirrorWorkers == 64

\* C17: with NETWORK_WORKERS and MIRROR_WORKERS unset or not integers, main
\* starts 128 primary workers and 64 secondary workers.
C17_DefaultPoolSizes ==
    cfgPc = "line 76" =>
        /\ ~IsDecimal(envNetworkWorkers) => networkWorkers = ReadmeNetworkWorkers
        /\ ~IsDecimal(envMirrorWorkers) => mirrorWorkers = ReadmeMirrorWorkers

\* ---------------------------------------------------------------- tooLate
\* C18: tooLate(receivedAt, submittedAt) is true exactly when now minus
\* submittedAt, its second argument, exceeds the threshold (false at
\* exactly the threshold), whatever receivedAt is.
C18_TooLateByTransactionAge ==
    late \in {"true", "false"} =>
        (late = "true" <=> clock - txTimestamp > Threshold)

\* What tooLate computes (checked beside C18, not a claim): whether now
\* minus its first argument exceeds the threshold.
TooLateByReceivedAt ==
    late \in {"true", "false"} =>
        (late = "true" <=> clock - timestamp > Threshold)

\* ----------------------------------------------------------------- lookup
\* C19: when the mirror node answers 200 with a parsable body the lookup
\* returns no error and the result of the first record whose transaction_id
\* equals the converted identifier, "" when no record equals it; the
\* outcome carries that status and no error, so that a transaction that
\* was not found and one found with an empty result give the same outcome.
C19_NotFoundIsNotAnError ==
    (lookupStatus # NoStatus /\ lookupReply.kind = "ok") =>
        LET records == lookupReply.transactions
            id == convertTransactionIdForMirrorNode(lookupPayload.TxID)
            found == {j \in 1..Len(records) : records[j].TransactionID = id}
        IN  /\ lookupResult.err = "" /\ ~lookupResult.fatal
            /\ found = {} => lookupResult.status = ""
            /\ \A j \in found :
                  (\A k \in found : j <= k) => lookupResult.status = records[j].Result
            /\ lookupStatus = [payload |-> lookupPayload,
                               Status |-> lookupResult.status, Error |-> ""]

\* The body holds records, none of the transaction asked for (one carries
\* the identifier as submitted, not converted): the outcome has an empty
\* status and no error.
C19_Witness ==
    /\ lookupStatus # NoStatus /\ lookupReply.kind = "ok"
    /\ lookupPayload.TxID = ValidTxID
    /\ \E j \in 1..Len(lookupReply.transactions) :
          /\ lookupReply.transactions[j].TransactionID = ValidTxID
          /\ lookupReply.transactions[j].Result = "SUCCESS"
    /\ lookupStatus.Status = "" /\ lookupStatus.Error = ""

\* ----------------------------------------------------------- conservation
AcceptedRequests == {s \in Subs : response[s] = StatusAccepted}
BusyHedera == {w \in 1..NetworkWorkers : hedera[w].pc # "recv"}
BusyMirror == {w \in 1..MirrorWorkers : mirror[w].pc # "recv"}
Sunk == UNION {{<<s, i>> : i \in 1..Len(sinkCalls[s])} : s \in Subs}

C15_DrainedAtShutdown ==
    exited =>
        /\ networkQueue = <<>> /\ mirrorQueue = <<>>
        /\ \A w \in DOMAIN hedera : hedera[w].pc = "recv"
        /\ \A w \in DOMAIN mirror : mirror[w].pc = "recv"
        /\ \A s \in Subs : response[s] = StatusAccepted => Len(sinkCalls[s]) = 1

\* ======================================================== converter claims
\* Any two '@' of s have a '.' between them.
AtsSeparated(s) ==
    \A i, k \in 1..Len(s) :
        (i < k /\ s[i] = "@" /\ s[k] = "@") => \E m \in (i + 1)..(k - 1) : s[m] = "."

\* C9 as stated: converting twice gives what converting once gives, for
\* every string over the alphabet.
C9_IdempotentOnEveryString == convPc = "twice" => twice = once

\* C9 as amended: the converter returns a string for every string (of the
\* same length, over the same alphabet), and converting twice gives what
\* converting once gives for every string in which any two '@' have a '.'
\* between them, so for every identifier account@seconds.nanos.
C9_TotalAndIdempotentOnIds ==
    /\ convPc \in {"once", "twice"} => once \in [1..Len(input) -> Alphabet]
    /\ (convPc = "twice" /\ AtsSeparated(input)) => twice = once

C9_Witness ==
    /\ convPc = "twice"
    /\ AtsSeparated(input)
    /\ once # input
    /\ \E i \in 1..Len(once) : once[i] = "."

\* The '@' at i opens a rewritten segment: a '.' follows it and it lies in
\* no earlier segment.
OpensSegment(s, i) ==
    /\ s[i] = "@"
    /\ \E j \in (i + 1)..Len(s) : s[j] = "."
    /\ \A k \in 1..(i - 1) : s[k] = "@" => \E m \in (k + 1)..(i - 1) : s[m] = "."
\* The '.' at j closes one: it is the first '.' after an opening '@'.
ClosesSegment(s, j) ==
    /\ s[j] = "."
    /\ \E i \in 1..(j - 1) :
          OpensSegment(s, i) /\ \A m \in (i + 1)..(j - 1) : s[m] # "."
EverySegmentRewritten(s) ==
    [i \in 1..Len(s) |->
        IF OpensSegment(s, i) \/ ClosesSegment(s, i) THEN "-" ELSE s[i]]
\* Only the first '@' and the first '.' after it become '-'.
FirstSegmentRewritten(s) ==
    LET a == IndexFrom(s, "@", 1)
        d == IF a = 0 THEN 0 ELSE IndexFrom(s, ".", a + 1)
    IN  IF d = 0 THEN s
        ELSE [i \in 1..Len(s) |-> IF i \in {a, d} THEN "-" ELSE s[i]]

ExampleId ==
    <<"0", ".", "0", ".", "2", "@", "1", "6", "9", "0", "0", "0", "0", "0", "0", "0",
      ".", "1", "2", "3", "4", "5", "6", "7", "8", "9">>
ExampleMirrorId ==
    <<"0", ".", "0", ".", "2", "-", "1", "6", "9", "0", "0", "0", "0", "0", "0", "0",
      "-", "1", "2", "3", "4", "5", "6", "7", "8", "9">>

\* C10 as stated: only the segment from the '@' to the first '.' after it
\* is rewritten, every other character is left as it was, and a string
\* with no '@' comes back unchanged.
C10_OnlyOneSegmentRewritten ==
    convPc \in {"once", "twice"} => once = FirstSegmentRewritten(input)

\* C10 as amended: account@seconds.nanos becomes account-seconds-nanos; in
\* general every segment from an '@' to the first '.' after it is rewritten,
\* the segments taken from left to right without overlap ('@' and that '.'
\* become '-'), every other character is left as it was, and a string with
\* no '@', or with no '.' after its '@', comes back unchanged.
C10_EverySegmentRewritten ==
    /\ convertTransactionIdForMirrorNode(ExampleId) = ExampleMirrorId
    /\ convPc \in {"once", "twice"} =>
          /\ once = EverySegmentRewritten(input)
          /\ (\A i \in 1..Len(input) : input[i] # "@") => once = input

C10_Witness ==
    /\ convPc = "once"
    /\ Cardinality({i \in 1..Len(input) : OpensSegment(input, i)}) = 2
    /\ once = <<"-", "-", "-", "-">>

=============================================================================
